---------------------------- MODULE Spec2Model ----------------------------
(***************************************************************************)
(* Verification model of the Hack VM translator (rust_hack_virtualmachine).*)
(*                                                                         *)
(* Text is modelled as sequences of one-character strings, so formatting   *)
(* (format!), splitting, regex matching and number parsing are computed    *)
(* and not assumed.  Five specifications share the pure operators:         *)
(*   SpecParser  Parser::from / has_more_commands / advance                *)
(*   SpecLine    Tokenizer::tokenize and Parser::advance on one line       *)
(*   SpecWriter  AsmWriter::write_init / write_command                     *)
(*   Spec        vm::run, the whole translation run                        *)
(*   SpecExec    the emitted assembly executed on the target machine       *)
(***************************************************************************)
EXTENDS Integers, Sequences, FiniteSets, TLC

VARIABLES
    \* ---- SpecParser: one Parser and the loop that drives it
    parser,        \* the Parser struct, [tokens, next_command, total_commands, class_name]
    source,        \* SpecParser, SpecLine: the raw lines the token lines were made from (ghost)
    n_lines,       \* number of token lines the parser was built from (ghost)
    n_advance,     \* number of advance() calls made so far (ghost)
    last_result,   \* what the last advance() returned
    \* ---- SpecWriter: one AsmWriter and the calls made on it
    writer,        \* the AsmWriter struct, [line_count, branch_count]
    emitted,       \* the text returned by each successful call, in call order
    calls,         \* the commands passed to write_command so far (ghost)
    \* ---- Spec: vm::run
    config,        \* Config, [filevec, write_init], and the option it was built from
    pc,            \* position in run()
    file_map,      \* HashMap file stem -> raw lines
    tokens,        \* HashMap file stem -> token lines
    cl,            \* Vec<Command>
    out,           \* Vec<String>
    collected,     \* the String the commands' texts are collected into
    disk,          \* the output file: <<>> while it does not exist, else <<its text>>
    filename,      \* the key of the tokens map the parse loop is at
    parsed,        \* (file, line ordinal) of every advance() made, in order (ghost)
    \* ---- SpecExec: the target machine
    rom,           \* the assembled program
    cpu,           \* [A, D, PC]
    ram,           \* data memory, a function on the addresses written so far
    scen,          \* the scenario being executed (ghost)
    obs            \* values observed at the claim's program points (ghost)

parserVars == <<parser, source, n_lines, n_advance, last_result>>
writerVars == <<writer, emitted, calls>>
runVars    == <<config, pc, file_map, tokens, cl, out, collected, disk, filename,
               parsed>>
execVars   == <<rom, cpu, ram, scen, obs>>
vars       == <<parserVars, writerVars, runVars, execVars>>

-----------------------------------------------------------------------------
(* Bounds of the model *)

\* SpecParser, Spec: lines in the source text
MaxLines == 3
\* SpecLine: words of a line before its comment
MaxWords == 3
\* SpecWriter: calls made on one generator
MaxCalls == 4
\* SpecExec: arguments of a call, locals of a function
MaxArgs == 2
MaxLocals == 2

\* u16
U16 == 65536

-----------------------------------------------------------------------------
(* Text *)

LowerChars == {"a","b","c","d","e","f","g","h","i","j","k","l","m",
               "n","o","p","q","r","s","t","u","v","w","x","y","z"}
DigitChars == {"0","1","2","3","4","5","6","7","8","9"}
Whitespace == {" ", "\t"}

DigitOf(n) ==
    CASE n = 0 -> "0" [] n = 1 -> "1" [] n = 2 -> "2" [] n = 3 -> "3"
      [] n = 4 -> "4" [] n = 5 -> "5" [] n = 6 -> "6" [] n = 7 -> "7"
      [] n = 8 -> "8" [] n = 9 -> "9"

ValueOf(c) == CHOOSE n \in 0..9 : DigitOf(n) = c

\* format!("{}", n) for an unsigned integer
RECURSIVE Display(_)
Display(n) == IF n < 10 THEN <<DigitOf(n)>> ELSE Display(n \div 10) \o <<DigitOf(n % 10)>>

RECURSIVE Concat(_)
Concat(ss) == IF ss = <<>> THEN <<>> ELSE Head(ss) \o Concat(Tail(ss))

\* the words of "a b c", joined by one blank
RECURSIVE JoinWords(_)
JoinWords(ws) ==
    IF ws = <<>> THEN <<>>
    ELSE IF Len(ws) = 1 THEN ws[1]
    ELSE ws[1] \o <<" ">> \o JoinWords(Tail(ws))

IsPrefix(p, s) == Len(p) <= Len(s) /\ SubSeq(s, 1, Len(p)) = p

\* regex literal without anchors: the literal occurs somewhere in s
ContainsLit(s, p) == \E i \in 1..(Len(s) - Len(p) + 1) : SubSeq(s, i, i + Len(p) - 1) = p

\* regex [class]+ without anchors: some character of s is in the class
ContainsClass(s, class) == \E i \in 1..Len(s) : s[i] \in class


-----------------------------------------------------------------------------
(* tokenizer.rs *)

Token_new(token_type) == [token |-> <<>>, token_type |-> token_type, is_keyword |-> FALSE]

Token_from(token, token_type, is_keyword) ==
    [token |-> token, token_type |-> token_type, is_keyword |-> is_keyword]

\* A compiled regex of the kinds default_ruleset uses: a literal or one
\* character class repeated, with or without the ^ anchor.
Regex(anchored, lit, class) == [anchored |-> anchored, lit |-> lit, class |-> class]

\* Regex::is_match
is_match(re, input) ==
    IF re.class = {}
    THEN IF re.anchored THEN IsPrefix(re.lit, input) ELSE ContainsLit(input, re.lit)
    ELSE IF re.anchored THEN input # <<>> /\ input[1] \in re.class
         ELSE ContainsClass(input, re.class)

MatchRule_new(return_type, rule, is_keyword) ==
    [return_type |-> return_type, rule |-> rule, is_keyword |-> is_keyword]

matches_str(rule, input) == is_match(rule.rule, input)

default_ruleset ==
    <<  MatchRule_new("Comment", Regex(TRUE, <<"/","/">>, {}), FALSE),
        MatchRule_new("Push", Regex(FALSE, <<"p","u","s","h">>, {}), TRUE),
        MatchRule_new("Pop", Regex(FALSE, <<"p","o","p">>, {}), TRUE),
        MatchRule_new("Add", Regex(FALSE, <<"a","d","d">>, {}), TRUE),
        MatchRule_new("Subtract", Regex(FALSE, <<"s","u","b">>, {}), TRUE),
        MatchRule_new("Negate", Regex(FALSE, <<"n","e","g">>, {}), TRUE),
        MatchRule_new("Equal", Regex(FALSE, <<"e","q">>, {}), TRUE),
        MatchRule_new("GreaterThan", Regex(FALSE, <<"g","t">>, {}), TRUE),
        MatchRule_new("LessThan", Regex(FALSE, <<"l","t">>, {}), TRUE),
        MatchRule_new("And", Regex(FALSE, <<"a","n","d">>, {}), TRUE),
        MatchRule_new("Or", Regex(FALSE, <<"o","r">>, {}), TRUE),
        MatchRule_new("Not", Regex(FALSE, <<"n","o","t">>, {}), TRUE),
        MatchRule_new("Label", Regex(FALSE, <<"l","a","b","e","l">>, {}), TRUE),
        MatchRule_new("If", Regex(FALSE, <<"i","f","-","g","o","t","o">>, {}), TRUE),
        MatchRule_new("Goto", Regex(FALSE, <<"g","o","t","o">>, {}), TRUE),
        MatchRule_new("Function", Regex(FALSE, <<"f","u","n","c","t","i","o","n">>, {}), TRUE),
        MatchRule_new("Call", Regex(FALSE, <<"c","a","l","l">>, {}), TRUE),
        MatchRule_new("Return", Regex(FALSE, <<"r","e","t","u","r","n">>, {}), TRUE),
        MatchRule_new("Symbol", Regex(FALSE, <<>>, LowerChars \cup {"_", "."}), FALSE),
        MatchRule_new("Index", Regex(FALSE, <<>>, DigitChars), FALSE) >>

\* str::trim
RECURSIVE trim(_)
trim(s) ==
    IF s = <<>> THEN s
    ELSE IF s[1] \in Whitespace THEN trim(Tail(s))
    ELSE IF s[Len(s)] \in Whitespace THEN trim(SubSeq(s, 1, Len(s) - 1))
    ELSE s

\* str::split_whitespace
RECURSIVE split_whitespace(_)
split_whitespace(s) ==
    IF s = <<>> THEN <<>>
    ELSE IF s[1] \in Whitespace THEN split_whitespace(Tail(s))
    ELSE LET stops == {i \in 1..Len(s) : s[i] \in Whitespace}
             n == IF stops = {} THEN Len(s) + 1
                  ELSE CHOOSE i \in stops : \A j \in stops : i <= j
         IN  <<SubSeq(s, 1, n - 1)>> \o split_whitespace(SubSeq(s, n, Len(s)))

\* the inner loop of tokenize keeping the word in the token it starts from
match_word_keeps_text(match_rules, word) ==
    LET hits == {i \in 1..Len(match_rules) : matches_str(match_rules[i], word)}
    IN  IF hits = {} THEN Token_from(word, "Undefined", FALSE)
        ELSE LET i == CHOOSE i \in hits : \A j \in hits : i <= j
             IN  Token_from(word, match_rules[i].return_type, match_rules[i].is_keyword)

\* the inner loop of tokenize: the first rule that matches the word
match_word(match_rules, word) ==
    LET hits == {i \in 1..Len(match_rules) : matches_str(match_rules[i], word)}
    IN  IF hits = {} THEN Token_new("Undefined")
        ELSE LET i == CHOOSE i \in hits : \A j \in hits : i <= j
             IN  Token_from(word, match_rules[i].return_type, match_rules[i].is_keyword)

\* the outer loop of tokenize without the break: every word becomes a token
RECURSIVE tokenize_words_to_the_end(_, _)
tokenize_words_to_the_end(match_rules, word_vec) ==
    IF word_vec = <<>> THEN <<>>
    ELSE <<match_word(match_rules, Head(word_vec))>>
             \o tokenize_words_to_the_end(match_rules, Tail(word_vec))

\* the outer loop of tokenize, with its break after a Comment token
RECURSIVE tokenize_words(_, _)
tokenize_words(match_rules, word_vec) ==
    IF word_vec = <<>> THEN <<>>
    ELSE LET token == match_word(match_rules, Head(word_vec))
         IN  IF token.token_type = "Comment" THEN <<token>>
             ELSE <<token>> \o tokenize_words(match_rules, Tail(word_vec))

tokenize(match_rules, input) == tokenize_words(match_rules, split_whitespace(trim(input)))

-----------------------------------------------------------------------------
(* A Vec.  A vector of n elements is held as its length and a pattern that *)
(* repeats, so that a file longer than a u16 can count is a small value;   *)
(* an ordinary vector is its own pattern.                                  *)

Vec(seq) == [n |-> Len(seq), pat |-> seq]

Repeat(seq, n) == [n |-> IF seq = <<>> THEN 0 ELSE n, pat |-> seq]

\* Vec::len
VecLen(v) == v.n

\* Vec::get, an Option: <<x>> or <<>>
VecGet(v, i) == IF i < v.n THEN <<v.pat[(i % Len(v.pat)) + 1]>> ELSE <<>>

-----------------------------------------------------------------------------
(* parser.rs *)

NoError == [kind |-> "", command_type |-> "", line_number |-> 0]

Ok(val) == [tag |-> "Ok", val |-> val, err |-> NoError]

Err(e) == [tag |-> "Err", val |-> <<>>, err |-> e]

\* a panic: unwrap() on None or on Err
Panic == [tag |-> "Panic", val |-> <<>>, err |-> NoError]

KeywordError(line_number) ==
    [kind |-> "KeywordError", command_type |-> "", line_number |-> line_number]

ArgumentError(command_type, line_number) ==
    [kind |-> "ArgumentError", command_type |-> command_type, line_number |-> line_number]

\* str::parse::<u16>: an optional + and then digits, the value at most 65535
RECURSIVE DigitsValue(_)
DigitsValue(s) == IF s = <<>> THEN 0 ELSE DigitsValue(SubSeq(s, 1, Len(s) - 1)) * 10 + ValueOf(s[Len(s)])

parse_u16(s) ==
    LET digits == IF s # <<>> /\ s[1] = "+" THEN Tail(s) ELSE s
    IN  IF digits # <<>> /\ (\A i \in 1..Len(digits) : digits[i] \in DigitChars)
           /\ Len(digits) <= 6 /\ DigitsValue(digits) < U16
        THEN Ok(<<DigitsValue(digits)>>)
        ELSE Panic

Parser_new ==
    [tokens |-> Vec(<<>>), next_command |-> 0, total_commands |-> 10, class_name |-> <<>>]

\* Parser::from dropping the name of the file
Parser_from_unnamed(toks, class_name) ==
    [tokens |-> toks, next_command |-> 0, total_commands |-> VecLen(toks) % U16,
     class_name |-> <<>>]

Parser_from(toks, class_name) ==
    [tokens |-> toks, next_command |-> 0, total_commands |-> VecLen(toks) % U16,
     class_name |-> class_name]

\* total_commands - next_command > 0 on u16: the subtraction overflows when the
\* cursor is past the total, which panics in a debug build and wraps in a
\* release build.  The set of outcomes.
has_more_commands(p) ==
    IF p.total_commands >= p.next_command
    THEN {Ok(<<p.total_commands - p.next_command > 0>>)}
    ELSE {Panic, Ok(<<TRUE>>)}

mem_access_parse(c, arg1, arg2, class_name) ==
    IF arg1.token_type = "Symbol" /\ arg2.token_type = "Index"
    THEN IF c.token_type \in {"Push", "Pop"}
         THEN LET index == parse_u16(arg2.token)
              IN  IF index.tag = "Panic" THEN Panic
                  ELSE Ok(<<[kind |-> c.token_type, segment |-> arg1.token,
                             index |-> index.val[1], class_name |-> class_name]>>)
         ELSE Ok(<<>>)
    ELSE Ok(<<>>)

\* control_flow_parse taking an operand of any kind for the label
control_flow_parse_any_operand(c, arg1) ==
    IF c.token_type \in {"Label", "Goto", "If"}
    THEN Ok(<<[kind |-> c.token_type, label |-> arg1.token]>>)
    ELSE Ok(<<>>)

control_flow_parse(c, arg1) ==
    IF arg1.token_type = "Symbol" /\ c.token_type \in {"Label", "Goto", "If"}
    THEN Ok(<<[kind |-> c.token_type, label |-> arg1.token]>>)
    ELSE Ok(<<>>)

function_command_parse(c, arg1, arg2) ==
    IF arg1.token_type = "Symbol" /\ arg2.token_type = "Index"
    THEN IF c.token_type \in {"Function", "Call"}
         THEN LET n == parse_u16(arg2.token)
              IN  IF n.tag = "Panic" THEN Panic
                  ELSE Ok(<<[kind |-> c.token_type, symbol |-> arg1.token, n |-> n.val[1]]>>)
         ELSE Ok(<<>>)
    ELSE Ok(<<>>)

arithmetic_parse(c) == Ok(<<[kind |-> "Arithmetic", op |-> c.token_type]>>)

\* Parser::parse: Ok(<<command>>), Ok(<<>>) for a line to skip, Err or a panic
parse(p, token_list) ==
    IF token_list = <<>> THEN Ok(<<>>)
    ELSE LET c == token_list[1] IN
    IF c.token_type = "Comment" THEN Ok(<<>>)
    ELSE IF ~c.is_keyword THEN Err(KeywordError(p.next_command))
    ELSE IF c.token_type \in {"Pop", "Push"}
    THEN IF Len(token_list) < 3 THEN Panic
         ELSE LET r == mem_access_parse(c, token_list[2], token_list[3], p.class_name)
              IN  IF r.tag = "Ok" /\ r.val = <<>>
                  THEN Err(ArgumentError("Memory Access", p.next_command))
                  ELSE r
    ELSE IF c.token_type \in {"Label", "If", "Goto"}
    THEN IF Len(token_list) < 2 THEN Panic
         ELSE LET r == control_flow_parse(c, token_list[2])
              IN  IF r.val = <<>> THEN Err(ArgumentError("Control Flow", p.next_command))
                  ELSE r
    ELSE IF c.token_type \in {"Call", "Function"}
    THEN IF Len(token_list) < 3 THEN Panic
         ELSE LET r == function_command_parse(c, token_list[2], token_list[3])
              IN  IF r.tag = "Ok" /\ r.val = <<>>
                  THEN Err(ArgumentError("Function", p.next_command))
                  ELSE r
    ELSE IF c.token_type = "Return" THEN Ok(<<[kind |-> "Return"]>>)
    ELSE arithmetic_parse(c)

\* advance() parsing the line before it moves the cursor
advance_parses_first(p) ==
    LET got == VecGet(p.tokens, p.next_command) IN
    IF got = <<>> THEN [parser |-> p, result |-> Panic]
    ELSE [parser |-> [p EXCEPT !.next_command = (@ + 1) % U16],
          result |-> parse(p, got[1])]

\* Parser::advance: the parser after the call and what the call returned
advance(p) ==
    LET got == VecGet(p.tokens, p.next_command) IN
    IF got = <<>> THEN [parser |-> p, result |-> Panic]
    ELSE LET p1 == [p EXCEPT !.next_command = (@ + 1) % U16]
         IN  [parser |-> p1, result |-> parse(p1, got[1])]

-----------------------------------------------------------------------------
(* Source text the specifications draw their input from *)

s_Main == <<"M","a","i","n">>
s_Sys == <<"S","y","s">>
s_Sys_init == <<"S","y","s",".","i","n","i","t">>
s_Foo == <<"F","o","o">>
s_push == <<"p","u","s","h">>
s_pop == <<"p","o","p">>
s_static == <<"s","t","a","t","i","c">>
s_constant == <<"c","o","n","s","t","a","n","t">>
s_local == <<"l","o","c","a","l">>
s_argument == <<"a","r","g","u","m","e","n","t">>
s_this == <<"t","h","i","s">>
s_that == <<"t","h","a","t">>
s_temp == <<"t","e","m","p">>

\* lines of VM text: two commands, a blank line, a command the generator
\* refuses, a line the parser refuses and a line with an operand missing
SourceLines ==
    <<  JoinWords(<<s_push, s_static, <<"1">>>>),
        <<"e","q">>,
        <<" ">>,
        JoinWords(<<s_pop, s_constant, <<"0">>>>),
        <<"b","a","r">>,
        JoinWords(<<s_push, s_local>>) >>

\* every text of at most n lines, as line numbers of SourceLines
Texts(n) == UNION {[1..k -> 1..Len(SourceLines)] : k \in 0..n}

RawLines(text) == [i \in 1..Len(text) |-> SourceLines[text[i]]]

TokenLines(raw) == [i \in 1..Len(raw) |-> tokenize(default_ruleset, raw[i])]

-----------------------------------------------------------------------------
(* Idle values: what a specification leaves the other specifications' state at *)

IdleParser ==
    /\ parser = Parser_new
    /\ source = <<>>
    /\ n_lines = 0
    /\ n_advance = 0
    /\ last_result = Ok(<<>>)

IdleWriter ==
    /\ writer = [line_count |-> 0, branch_count |-> 0]
    /\ emitted = <<>>
    /\ calls = <<>>

IdleRun ==
    /\ config = [filevec |-> <<>>, option |-> "", write_init |-> TRUE]
    /\ pc = "idle"
    /\ file_map = <<>>
    /\ tokens = <<>>
    /\ cl = <<>>
    /\ out = <<>>
    /\ collected = <<>>
    /\ disk = <<>>
    /\ filename = <<>>
    /\ parsed = <<>>

IdleExec ==
    /\ rom = <<>>
    /\ cpu = [A |-> 0, D |-> 0, PC |-> 0]
    /\ ram = <<>>
    /\ scen = [kind |-> "idle"]
    /\ obs = <<>>

-----------------------------------------------------------------------------
(* SpecParser: a parser built by Parser::from and driven by the loop       *)
(*     while parser.has_more_commands() { parser.advance() }               *)
(* The text is a pattern of at most MaxLines lines; it is either the whole *)
(* file or repeats to fill a file a little longer than a u16 can count.    *)

FileLengths(text) ==
    {Len(text)} \cup (IF text = <<>> THEN {} ELSE {U16 + k : k \in 0..MaxLines})

InitParser ==
    /\ \E text \in Texts(MaxLines) : \E n \in FileLengths(text) :
          /\ parser = Parser_from(Repeat(TokenLines(RawLines(text)), n), s_Main)
          /\ source = RawLines(text)
          /\ n_lines = n
    /\ n_advance = 0
    /\ last_result = Ok(<<>>)
    /\ IdleWriter /\ IdleRun /\ IdleExec

\* one turn of the loop: has_more_commands() answered true, advance() is called
Advance ==
    /\ last_result.tag # "Panic"
    /\ Ok(<<TRUE>>) \in has_more_commands(parser)
    /\ LET a == advance(parser) IN
          /\ parser' = a.parser
          /\ last_result' = a.result
    /\ n_advance' = n_advance + 1
    /\ UNCHANGED <<source, n_lines>>
    /\ UNCHANGED <<writerVars, runVars, execVars>>

NextParser == Advance

SpecParser == InitParser /\ [][NextParser]_vars

\* the loop has ended: has_more_commands() answered false
LoopEnded == last_result.tag # "Panic" /\ Ok(<<FALSE>>) \in has_more_commands(parser)

-----------------------------------------------------------------------------
(* SpecLine: one line of text, tokenized by the default rules and parsed.  *)
(* The line is at most MaxWords words of the vocabulary, with or without a *)
(* comment after them; it is the last line of a file whose lines before it *)
(* are blank lines and comments.  The parser is the one Parser::new()      *)
(* gives until the file is tokenized and Parser::from builds another.      *)

s_goto == <<"g","o","t","o">>
s_call == <<"c","a","l","l">>
s_add == <<"a","d","d">>
s_popular == <<"p","o","p","u","l","a","r">>
s_undefined == <<"%","$","^","%">>

Vocabulary == <<s_push, s_goto, s_call, s_add, s_local, <<"7">>, s_undefined, s_popular>>

\* what may follow the words: nothing, a bare marker, a marker with text
CommentTails == << <<>>, <<"/","/">>, <<"/","/","n","o","t","e"," ","7">> >>

\* the lines before the line: a blank line and a comment in turn
FillerLine(j) == IF j % 2 = 1 THEN <<" ">> ELSE <<"/","/"," ","x">>

LineText(body, tail) ==
    JoinWords([i \in 1..Len(body) |-> Vocabulary[body[i]]])
        \o (IF tail = <<>> THEN <<>> ELSE <<" ">> \o tail)

LineFiles ==
    {[j \in 1..(k + 1) |-> IF j <= k THEN FillerLine(j) ELSE LineText(body, CommentTails[t])] :
        k \in {0, MaxLines - 1},
        body \in UNION {[1..n -> 1..Len(Vocabulary)] : n \in 0..MaxWords},
        t \in 1..Len(CommentTails)}

InitLine ==
    /\ parser = Parser_new
    /\ source \in LineFiles
    /\ n_lines = Len(source)
    /\ n_advance = 0
    /\ last_result = Ok(<<>>)
    /\ IdleWriter /\ IdleRun /\ IdleExec

\* run, lines 89-102, for one file: every line is tokenized and the parser
\* of the file built from the token lines
TokenizeLines ==
    /\ parser = Parser_new
    /\ n_advance = 0
    /\ parser' = Parser_from(Vec(TokenLines(source)), s_Main)
    /\ UNCHANGED <<source, n_lines, n_advance, last_result>>
    /\ UNCHANGED <<writerVars, runVars, execVars>>

NextLine == TokenizeLines \/ Advance

SpecLine == InitLine /\ [][NextLine]_vars

\* advance() has just returned for a line of the tokenized file: the line of
\* ordinal n_advance
AfterAdvance ==
    /\ n_advance \in 1..Len(source)
    /\ VecLen(parser.tokens) = Len(source)

\* the token line of the line advance() has just returned for
LastTokens == parser.tokens.pat[n_advance]

\* the words of that line
LastWords == split_whitespace(trim(source[n_advance]))

-----------------------------------------------------------------------------
(* Claims on one line: the parser's errors *)

\* C11: advance() on a line whose first token is not a keyword and not a
\* Comment (a Symbol, an Index or an Undefined token) returns KeywordError,
\* and the line number of the error is the ordinal of the line in its file,
\* counted from 1.
C11_KeywordErrorWithOrdinal ==
    (AfterAdvance /\ LastTokens # <<>>
        /\ ~LastTokens[1].is_keyword /\ LastTokens[1].token_type # "Comment")
    => /\ LastTokens[1].token_type \in {"Symbol", "Index", "Undefined"}
       /\ last_result = Err(KeywordError(n_advance))

\* C11 witness: the last line of a file of MaxLines lines starts with a word no
\* rule matches, and the error names that line
C11_Witness ==
    /\ AfterAdvance
    /\ n_advance = MaxLines
    /\ LastTokens[1].token_type = "Undefined"
    /\ last_result.tag = "Err"
    /\ last_result.err.line_number = MaxLines

\* the category of a command keyword and the operands it requires
Category(token_type) ==
    CASE token_type \in {"Push", "Pop"} -> "Memory Access"
      [] token_type \in {"Label", "If", "Goto"} -> "Control Flow"
      [] token_type \in {"Function", "Call"} -> "Function"
      [] OTHER -> ""

Required(token_type) ==
    CASE token_type \in {"Push", "Pop", "Function", "Call"} -> 2
      [] token_type \in {"Label", "If", "Goto"} -> 1
      [] OTHER -> 0

\* the tokens after the first that are operands, a comment being none
Operands(token_list) == SelectSeq(Tail(token_list), LAMBDA t : t.token_type # "Comment")

\* C12: a line that starts with Push/Pop, Label/If/Goto or Function/Call and
\* has fewer operands than the command requires yields Err(ArgumentError) of
\* the category of the command; the parser never aborts on the missing token.
C12_MissingOperandIsArgumentError ==
    (AfterAdvance /\ LastTokens # <<>>
        /\ Len(Operands(LastTokens)) < Required(LastTokens[1].token_type))
    => last_result = Err(ArgumentError(Category(LastTokens[1].token_type), n_advance))

\* the first operand is not a Symbol, or the second of two is not an Index
WrongKind(token_list) ==
    LET ops == Operands(token_list) IN
    \/ ops[1].token_type # "Symbol"
    \/ Required(token_list[1].token_type) = 2 /\ ops[2].token_type # "Index"

\* C13: a line that starts with Push/Pop, Label/If/Goto or Function/Call and
\* has the operands the command requires, one of them of the wrong kind,
\* yields Err(ArgumentError) of the category of the command, never a Command.
C13_WrongKindIsArgumentError ==
    (AfterAdvance /\ LastTokens # <<>>
        /\ Required(LastTokens[1].token_type) > 0
        /\ Len(Operands(LastTokens)) >= Required(LastTokens[1].token_type)
        /\ WrongKind(LastTokens))
    => last_result = Err(ArgumentError(Category(LastTokens[1].token_type), n_advance))

\* C13 witness: "goto 7", an Index where the label is required
C13_Witness ==
    /\ AfterAdvance
    /\ Len(LastTokens) = 2
    /\ LastTokens[1].token_type = "Goto" /\ LastTokens[2].token_type = "Index"
    /\ last_result.tag = "Err"
    /\ last_result.err.command_type = "Control Flow"

-----------------------------------------------------------------------------
(* Claims on one line: the tokenizer *)

\* the words that open a comment, and the words before the first of them
CommentWords(words) == {i \in 1..Len(words) : IsPrefix(<<"/","/">>, words[i])}

FirstComment(words) == CHOOSE i \in CommentWords(words) : \A j \in CommentWords(words) : i <= j

WordsBeforeComment(words) == SubSeq(words, 1, FirstComment(words) - 1)

\* what advance() returns for the one-line file made of these words
ResultOfLine(words) ==
    advance(Parser_from(Vec(TokenLines(<<JoinWords(words)>>)), s_Main)).result

\* C15: the tokens of a line end with its first Comment token, one token for
\* each word up to the word that opens the comment, and a line that is a
\* command followed by a comment parses to the command the line parses to
\* without the comment.
C15_InlineCommentIgnored ==
    AfterAdvance =>
        /\ \A i \in 1..Len(LastTokens) :
              LastTokens[i].token_type = "Comment" => i = Len(LastTokens)
        /\ CommentWords(LastWords) # {} =>
              /\ Len(LastTokens) = FirstComment(LastWords)
              /\ LastTokens[Len(LastTokens)].token_type = "Comment"
              /\ LET alone == ResultOfLine(WordsBeforeComment(LastWords))
                 IN  (alone.tag = "Ok" /\ alone.val # <<>>) => last_result = alone

\* C15 witness: "add //note 7" was parsed as add
C15_Witness ==
    /\ AfterAdvance
    /\ LastWords = <<s_add, <<"/","/","n","o","t","e">>, <<"7">>>>
    /\ Len(LastTokens) = 2
    /\ last_result = Ok(<<[kind |-> "Arithmetic", op |-> "Add"]>>)

\* the rules that match a word
MatchingRules(word) ==
    {i \in 1..Len(default_ruleset) : matches_str(default_ruleset[i], word)}

\* C16 as claimed: tokenize does not fail, and a word that no rule matches
\* becomes one Undefined token that carries the text of the word.
C16_UndefinedCarriesText ==
    AfterAdvance =>
        \A i \in 1..Len(LastTokens) :
            MatchingRules(LastWords[i]) = {} =>
                /\ LastTokens[i].token_type = "Undefined"
                /\ LastTokens[i].token = LastWords[i]

\* C16: tokenize does not fail and gives one token for each word up to the
\* first comment; a word that no rule matches becomes one Undefined token,
\* not a keyword, whose text is empty, and every other token carries the text
\* of its word.
C16_UndefinedIsEmpty ==
    AfterAdvance =>
        /\ Len(LastTokens) <= Len(LastWords)
        /\ \A i \in 1..Len(LastTokens) :
              IF MatchingRules(LastWords[i]) = {}
              THEN LastTokens[i] = [token |-> <<>>, token_type |-> "Undefined",
                                    is_keyword |-> FALSE]
              ELSE LastTokens[i].token = LastWords[i]
                       /\ LastTokens[i].token_type # "Undefined"

\* C16 witness: "add %$^%" gave an Add token and an Undefined token
C16_Witness ==
    /\ AfterAdvance
    /\ LastWords = <<s_add, s_undefined>>
    /\ Len(LastTokens) = 2
    /\ LastTokens[2].token_type = "Undefined"

\* the text of the keywords, as the rules spell them
KeywordTexts ==
    {default_ruleset[r].rule.lit : r \in {r \in 1..Len(default_ruleset) :
                                             default_ruleset[r].is_keyword}}

\* a word of letters, digits, '_' and '.' that does not start with a digit
NameChars ==
    LowerChars \cup DigitChars \cup {"_", "."}
        \cup {"A","B","C","D","E","F","G","H","I","J","K","L","M",
              "N","O","P","Q","R","S","T","U","V","W","X","Y","Z"}

IsName(word) ==
    /\ word # <<>>
    /\ \A k \in 1..Len(word) : word[k] \in NameChars
    /\ word[1] \notin DigitChars

\* C19: a token is of a keyword kind only if its word is the text of that
\* keyword; every other name, also one that holds a keyword inside it, is a
\* Symbol token that is not a keyword.
C19_KeywordsAreWholeWords ==
    AfterAdvance =>
        \A i \in 1..Len(LastTokens) :
            /\ LastTokens[i].is_keyword =>
                  \E r \in 1..Len(default_ruleset) :
                      /\ default_ruleset[r].return_type = LastTokens[i].token_type
                      /\ default_ruleset[r].rule.lit = LastWords[i]
            /\ (IsName(LastWords[i]) /\ LastWords[i] \notin KeywordTexts) =>
                  /\ LastTokens[i].token_type = "Symbol"
                  /\ ~LastTokens[i].is_keyword

-----------------------------------------------------------------------------
(* Claim on the lines the parser skips, under SpecParser *)

\* a blank line or a line that is a comment from its first word
IsSkipped(raw) == trim(raw) = <<>> \/ IsPrefix(<<"/","/">>, trim(raw))

\* the raw line of that ordinal (from 1) in the file of SpecParser
FileLine(i) == source[((i - 1) % Len(source)) + 1]

\* no line of the file is refused by the parser
AllLinesParse ==
    \A j \in 1..Len(source) :
        parse(parser, tokenize(default_ruleset, source[j])).tag = "Ok"

\* how many of the first n lines of the file are commands; the file repeats
\* the lines of source
CommandLinesIn(n) ==
    LET len == Len(source)
        among(k) == Cardinality({j \in 1..k : ~IsSkipped(source[j])})
    IN  IF len = 0 THEN 0 ELSE (n \div len) * among(len) + among(n % len)

\* how many commands the loop hands out for the file with its blank lines and
\* comments taken out: a file of commands only, each advance() a command
HandedOutWithoutSkipped ==
    Parser_from(Repeat(<<<<>>>>, CommandLinesIn(n_lines)), s_Main).total_commands

\* C14: a blank line and a comment line parse to Ok(None), and they change
\* nothing of what a program yields: once the loop over a file whose lines
\* all parse has ended, it has handed out as many commands as it hands out
\* for the same file without its blank lines and comments.
C14_SkippedLinesChangeNothing ==
    /\ (n_advance >= 1 /\ last_result.tag # "Panic" /\ IsSkipped(FileLine(n_advance)))
       => last_result = Ok(<<>>)
    /\ (LoopEnded /\ AllLinesParse)
       => CommandLinesIn(n_advance) = HandedOutWithoutSkipped

-----------------------------------------------------------------------------
(* Claim on the cursor, under SpecLine: the parser of Parser::new() and the  *)
(* parser Parser::from builds from the tokenized file                       *)

\* C20: whenever has_more_commands() answers true there is a token line at
\* the cursor for the next advance(), and has_more_commands() itself does not
\* fail, for the parser of Parser::new() as for one built by Parser::from.
C20_MoreCommandsMeansALine ==
    /\ Ok(<<TRUE>>) \in has_more_commands(parser)
           => VecGet(parser.tokens, parser.next_command) # <<>>
    /\ Panic \notin has_more_commands(parser)

-----------------------------------------------------------------------------
(* writer.rs.  A text is a sequence of lines, a line a sequence of          *)
(* characters; every string the generator builds ends with a newline, so    *)
(* joining strings is joining sequences of lines.                           *)

\* one line made of pieces: format!("@{}.{}\n", a, b) is <<Concat(<<"@", a, ".", b>>)>>
Line(pieces) == <<Concat(pieces)>>

\* The Address of a segment name.  symbol_table.rs as shipped holds the
\* assembler's register table and no Address type; the value of each segment
\* is the one the design fixes: a base register to dereference, or base 5.
Relative(base_symbol) == [mode |-> "Relative", symbol |-> base_symbol, base |-> 0]

Absolute(base_value) == [mode |-> "Absolute", symbol |-> <<>>, base |-> base_value]

\* The Address the table holds for static.  The design puts static in the
\* table and fixes no Address for it, and the generator never looks it up:
\* it is some one Address, here either of two.
StaticAddresses == {Absolute(16), Relative(<<"T","H","I","S">>)}

\* SymbolTable::new() and load_starting_table(): the six built-in entries
load_starting_table(static_address) ==
    [name \in {s_local, s_argument, s_this, s_that, s_temp, s_static} |->
        CASE name = s_local -> Relative(<<"L","C","L">>)
          [] name = s_argument -> Relative(<<"A","R","G">>)
          [] name = s_this -> Relative(<<"T","H","I","S">>)
          [] name = s_that -> Relative(<<"T","H","A","T">>)
          [] name = s_temp -> Absolute(5)
          [] name = s_static -> static_address]

StartingTables == {load_starting_table(a) : a \in StaticAddresses}

\* SymbolTable::get_address, an Option
get_address(symbol_table, symbol) ==
    IF symbol \in DOMAIN symbol_table THEN <<symbol_table[symbol]>> ELSE <<>>

AsmWriter_from(symbol_table) ==
    [line_count |-> 0, branch_count |-> 0, symbol_table |-> symbol_table]

\* a generator as run builds it, for the texts that depend on no table entry
\* of static
NewWriter == AsmWriter_from(load_starting_table(Absolute(16)))

WOk(text) == [tag |-> "Ok", text |-> text, msg |-> ""]

WErr(msg) == [tag |-> "Err", text |-> <<>>, msg |-> msg]

value_from_segment_to_a(segment, index) ==
    Line(<<<<"@">>, segment>>) \o <<<<"D","=","M">>>> \o Line(<<<<"@">>, Display(index)>>)
        \o <<<<"A","=","D","+","A">>, <<"A","=","M">>>>

constant_to_a(index) == Line(<<<<"@">>, Display(index)>>)

save_segment_addr_to_r13(segment, index) ==
    Line(<<<<"@">>, segment>>) \o <<<<"D","=","M">>>> \o Line(<<<<"@">>, Display(index)>>)
        \o <<<<"D","=","D","+","A">>, <<"@","R","1","3">>, <<"M","=","D">>>>

save_d_to_r13_segment_address == <<<<"@","R","1","3">>, <<"A","=","M">>, <<"M","=","D">>>>

push_from_a == <<<<"D","=","A">>, <<"@","S","P">>, <<"A","=","M">>, <<"M","=","D">>, <<"@","S","P">>, <<"M","=","M","+","1">>>>

push_from_m == <<<<"D","=","M">>, <<"@","S","P">>, <<"A","=","M">>, <<"M","=","D">>, <<"@","S","P">>, <<"M","=","M","+","1">>>>

push_from_d == <<<<"@","S","P">>, <<"A","=","M">>, <<"M","=","D">>, <<"@","S","P">>, <<"M","=","M","+","1">>>>

write_pop_to_d == <<<<"@","S","P">>, <<"A","M","=","M","-","1">>, <<"D","=","M">>>>

peek_next_value == <<<<"@","S","P">>, <<"A","M","=","M","-","1">>>>

get_operands == write_pop_to_d \o peek_next_value

write_push(w, segment, index, class_name) ==
    IF segment = s_constant THEN WOk(constant_to_a(index) \o push_from_a)
    ELSE IF segment = s_static
    THEN WOk(Line(<<<<"@">>, class_name, <<".">>, Display(index)>>) \o <<<<"A","=","M">>>>
             \o push_from_a)
    ELSE LET seg == get_address(w.symbol_table, segment) IN
         IF seg = <<>> THEN WErr("Invalid segment provided")
         ELSE IF seg[1].mode = "Relative"
         THEN WOk(value_from_segment_to_a(seg[1].symbol, index) \o push_from_a)
         ELSE WOk(Line(<<<<"@">>, Display((seg[1].base + index) % U16)>>) \o <<<<"A","=","M">>>>
                  \o push_from_a)

write_pop(w, segment, index, class_name) ==
    IF segment = s_constant THEN WErr("Cannot pop to constant")
    ELSE IF segment = s_static
    THEN WOk(write_pop_to_d
             \o Line(<<<<"@">>, class_name, <<".">>, Display(index)>>) \o <<<<"M","=","D">>>>)
    ELSE LET seg == get_address(w.symbol_table, segment) IN
         IF seg = <<>> THEN WErr("Invalid segment provided")
         ELSE IF seg[1].mode = "Relative"
         THEN WOk(save_segment_addr_to_r13(seg[1].symbol, index) \o write_pop_to_d
                  \o save_d_to_r13_segment_address)
         ELSE WOk(write_pop_to_d
                  \o Line(<<<<"@">>, Display((seg[1].base + index) % U16)>>) \o <<<<"M","=","D">>>>)

write_label(label) == WOk(Line(<<<<"(">>, label, <<")">>>>))

write_goto(label) == WOk(Line(<<<<"@">>, label>>) \o <<<<"0",";","J","M","P">>>>)

write_if(label) == WOk(write_pop_to_d \o Line(<<<<"@">>, label>>) \o <<<<"D",";","J","L","T">>>>)

\* format!("RET-{}${}", symbol, self.line_count)
return_label(w, symbol) == Concat(<<<<"R","E","T","-">>, symbol, <<"$">>, Display(w.line_count)>>)

\* write_call saving THAT before THIS
call_saves_swapped ==
    <<<<"@","L","C","L">>>> \o push_from_m
    \o <<<<"@","A","R","G">>>> \o push_from_m
    \o <<<<"@","T","H","A","T">>>> \o push_from_m
    \o <<<<"@","T","H","I","S">>>> \o push_from_m

\* write_call, lines 151-158: the caller's LCL, ARG, THIS, THAT are pushed
call_saves ==
    <<<<"@","L","C","L">>>> \o push_from_m
    \o <<<<"@","A","R","G">>>> \o push_from_m
    \o <<<<"@","T","H","I","S">>>> \o push_from_m
    \o <<<<"@","T","H","A","T">>>> \o push_from_m

write_call(w, symbol, nargs) ==
    WOk(Line(<<<<"@">>, return_label(w, symbol)>>)
        \o push_from_a
        \o call_saves
        \o <<<<"@","S","P">>, <<"D","=","M">>>>
        \o Line(<<<<"@">>, Display((nargs + 5) % U16)>>)
        \o <<<<"D","=","D","-","A">>, <<"@","A","R","G">>, <<"M","=","D">>, <<"@","S","P">>, <<"D","=","M">>, <<"@","L","C","L">>, <<"M","=","D">>>>
        \o write_goto(symbol).text
        \o Line(<<<<"(">>, return_label(w, symbol), <<")">>>>))

RECURSIVE push_zeros(_, _)
push_zeros(w, nvars) ==
    IF nvars = 0 THEN <<>>
    ELSE write_push(w, s_constant, 0, <<>>).text \o push_zeros(w, nvars - 1)

write_function(w, symbol, nvars) ==
    WOk(Line(<<<<"(">>, symbol, <<")">>>>) \o push_zeros(w, nvars))

\* write_return leaving SP on the returned value
return_sp_at_arg == <<<<"@","A","R","G">>, <<"D","=","M">>, <<"@","S","P">>, <<"M","=","D">>>>

\* write_return, line 184, its first four instructions: SP = ARG + 1
return_sp == <<<<"@","A","R","G">>, <<"D","=","M","+","1">>, <<"@","S","P">>, <<"M","=","D">>>>

\* write_pop(..).unwrap() inside: a refused pop is a panic
write_return(w) ==
    LET pop == write_pop(w, s_argument, 0, <<>>) IN
    IF pop.tag = "Err" THEN [tag |-> "Panic", text |-> <<>>, msg |-> pop.msg]
    ELSE WOk(<<<<"@","L","C","L">>, <<"D","=","M">>, <<"@","R","1","4">>, <<"M","=","D">>, <<"@","5">>, <<"A","=","D","-","A">>, <<"D","=","M">>, <<"@","R","1","5">>, <<"M","=","D">>>>
             \o pop.text
             \o return_sp
             \o <<<<"@","R","1","4">>, <<"A","M","=","M","-","1">>, <<"D","=","M">>, <<"@","T","H","A","T">>, <<"M","=","D">>, <<"@","R","1","4">>, <<"A","M","=","M","-","1">>, <<"D","=","M">>, <<"@","T","H","I","S">>, <<"M","=","D">>, <<"@","R","1","4">>, <<"A","M","=","M","-","1">>, <<"D","=","M">>, <<"@","A","R","G">>, <<"M","=","D">>, <<"@","R","1","4">>, <<"A","M","=","M","-","1">>, <<"D","=","M">>, <<"@","L","C","L">>, <<"M","=","D">>, <<"@","R","1","5">>, <<"A","=","M">>, <<"0",";","J","M","P">>>>)

\* format!("D=M-D\n@BRANCH{bcount}\nD;{in}\n ... (BRANCH{bcount}END)\n")
write_comparison(w, instruction) ==
    LET bcount == Display(w.branch_count) IN
    <<<<"D","=","M","-","D">>>>
    \o Line(<<<<"@","B","R","A","N","C","H">>, bcount>>)
    \o Line(<<<<"D",";">>, instruction>>)
    \o <<<<"D","=","0">>, <<"@","S","P">>, <<"A","=","M">>, <<"M","=","D">>, <<"@","S","P">>, <<"M","=","M","+","1">>>>
    \o Line(<<<<"@","B","R","A","N","C","H">>, bcount, <<"E","N","D">>>>)
    \o <<<<"0",";","J","M","P">>>>
    \o Line(<<<<"(","B","R","A","N","C","H">>, bcount, <<")">>>>)
    \o <<<<"D","=","-","1">>, <<"@","S","P">>, <<"A","=","M">>, <<"M","=","D">>, <<"@","S","P">>, <<"M","=","M","+","1">>>>
    \o Line(<<<<"(","B","R","A","N","C","H">>, bcount, <<"E","N","D",")">>>>)

\* the operators that take &mut self return the writer they leave behind
equal(w) ==
    [writer |-> [w EXCEPT !.branch_count = (@ + 1) % U16],
     text |-> get_operands \o write_comparison(w, <<"J","E","Q">>)]

greater_than(w) ==
    [writer |-> [w EXCEPT !.branch_count = (@ + 1) % U16],
     text |-> get_operands \o write_comparison(w, <<"J","G","T">>)]

\* less_than with the increment of the counter forgotten
less_than_keeps_count(w) ==
    [writer |-> w, text |-> get_operands \o write_comparison(w, <<"J","L","T">>)]

less_than(w) ==
    [writer |-> [w EXCEPT !.branch_count = (@ + 1) % U16],
     text |-> get_operands \o write_comparison(w, <<"J","L","T">>)]

add == get_operands \o <<<<"D","=","D","+","M">>>> \o push_from_d

and == get_operands \o <<<<"D","=","D","&","M">>>> \o push_from_d

or == get_operands \o <<<<"D","=","D","|","M">>>> \o push_from_d

\* subtract with the operands the other way round
subtract_reversed == get_operands \o <<<<"D","=","D","-","M">>>> \o push_from_d

subtract == get_operands \o <<<<"D","=","M","-","D">>>> \o push_from_d

not == write_pop_to_d \o <<<<"D","=","!","D">>>> \o push_from_d

negate == write_pop_to_d \o <<<<"D","=","-","D">>>> \o push_from_d

\* [writer, result]
write_arithmetic(w, token_type) ==
    CASE token_type = "Add" -> [writer |-> w, result |-> WOk(add)]
      [] token_type = "Subtract" -> [writer |-> w, result |-> WOk(subtract)]
      [] token_type = "And" -> [writer |-> w, result |-> WOk(and)]
      [] token_type = "Or" -> [writer |-> w, result |-> WOk(or)]
      [] token_type = "Not" -> [writer |-> w, result |-> WOk(not)]
      [] token_type = "Negate" -> [writer |-> w, result |-> WOk(negate)]
      [] token_type = "Equal" -> [writer |-> equal(w).writer, result |-> WOk(equal(w).text)]
      [] token_type = "GreaterThan" ->
             [writer |-> greater_than(w).writer, result |-> WOk(greater_than(w).text)]
      [] token_type = "LessThan" ->
             [writer |-> less_than(w).writer, result |-> WOk(less_than(w).text)]
      [] OTHER -> [writer |-> w, result |-> WErr("Invalid arithmetic command")]

\* the match of write_command with a pop that moves the base of its segment
\* to the cell it wrote
write_dispatch_moves_segment(w, command) ==
    CASE command.kind = "Push" ->
             [writer |-> w,
              result |-> write_push(w, command.segment, command.index, command.class_name)]
      [] command.kind = "Pop" ->
             [writer |-> IF command.segment \in DOMAIN w.symbol_table
                         THEN [w EXCEPT !.symbol_table[command.segment] =
                                            Absolute(command.index)]
                         ELSE w,
              result |-> write_pop(w, command.segment, command.index, command.class_name)]
      [] command.kind = "Arithmetic" -> write_arithmetic(w, command.op)
      [] command.kind = "If" -> [writer |-> w, result |-> write_if(command.label)]
      [] command.kind = "Goto" -> [writer |-> w, result |-> write_goto(command.label)]
      [] command.kind = "Label" -> [writer |-> w, result |-> write_label(command.label)]
      [] command.kind = "Call" ->
             [writer |-> w, result |-> write_call(w, command.symbol, command.n)]
      [] command.kind = "Function" ->
             [writer |-> w, result |-> write_function(w, command.symbol, command.n)]
      [] command.kind = "Return" -> [writer |-> w, result |-> write_return(w)]

\* the match of write_command: [writer, result]
write_dispatch(w, command) ==
    CASE command.kind = "Push" ->
             [writer |-> w,
              result |-> write_push(w, command.segment, command.index, command.class_name)]
      [] command.kind = "Pop" ->
             [writer |-> w,
              result |-> write_pop(w, command.segment, command.index, command.class_name)]
      [] command.kind = "Arithmetic" -> write_arithmetic(w, command.op)
      [] command.kind = "If" -> [writer |-> w, result |-> write_if(command.label)]
      [] command.kind = "Goto" -> [writer |-> w, result |-> write_goto(command.label)]
      [] command.kind = "Label" -> [writer |-> w, result |-> write_label(command.label)]
      [] command.kind = "Call" ->
             [writer |-> w, result |-> write_call(w, command.symbol, command.n)]
      [] command.kind = "Function" ->
             [writer |-> w, result |-> write_function(w, command.symbol, command.n)]
      [] command.kind = "Return" -> [writer |-> w, result |-> write_return(w)]

\* line_count after a command that was written
next_line_count(w) == (w.line_count + 1) % U16

\* write_command counting the command before it looks at the result
write_command_counts_first(w, command) ==
    LET outstr == Line(<<<<"/","/","C","o","m","m","a","n","d"," ","#">>, Display(w.line_count)>>)
        comm == write_dispatch(w, command)
        counted == [comm.writer EXCEPT !.line_count = next_line_count(w)]
    IN  IF comm.result.tag # "Ok" THEN [writer |-> counted, result |-> comm.result]
        ELSE [writer |-> counted, result |-> WOk(outstr \o comm.result.text)]

\* AsmWriter::write_command: the ? returns the error before line_count moves
write_command(w, command) ==
    LET outstr == Line(<<<<"/","/","C","o","m","m","a","n","d"," ","#">>, Display(w.line_count)>>)
        comm == write_dispatch(w, command)
    IN  IF comm.result.tag # "Ok" THEN comm
        ELSE [writer |-> [comm.writer EXCEPT !.line_count = next_line_count(w)],
              result |-> WOk(outstr \o comm.result.text)]

\* AsmWriter::write_init
write_init(w) ==
    [writer |-> w,
     result |-> WOk(<<<<"@","2","5","6">>, <<"D","=","A">>, <<"@","S","P">>, <<"M","=","D">>>> \o write_call(w, s_Sys_init, 0).text)]

-----------------------------------------------------------------------------
(* SpecWriter: one generator; write_init is called first or not at all,    *)
(* then write_command up to MaxCalls times with commands of the menu.      *)

Arithmetic(op) == [kind |-> "Arithmetic", op |-> op]

Call(symbol, nargs) == [kind |-> "Call", symbol |-> symbol, n |-> nargs]

Function(symbol, nvars) == [kind |-> "Function", symbol |-> symbol, n |-> nvars]

Push(segment, index, class_name) ==
    [kind |-> "Push", segment |-> segment, index |-> index, class_name |-> class_name]

Pop(segment, index, class_name) ==
    [kind |-> "Pop", segment |-> segment, index |-> index, class_name |-> class_name]

Return == [kind |-> "Return"]

Label(label) == [kind |-> "Label", label |-> label]

Goto(label) == [kind |-> "Goto", label |-> label]

CommandMenu ==
    <<  Call(s_Sys_init, 0),
        Call(s_Foo, 1),
        Arithmetic("Equal"),
        Arithmetic("GreaterThan"),
        Arithmetic("LessThan"),
        Arithmetic("Add"),
        Pop(s_constant, 0, s_Main),
        Pop(s_constant, 65535, s_Main),
        Push(s_local, 2, s_Main),
        Pop(s_temp, 1, s_Main) >>

InitWriter ==
    /\ \E st \in StartingTables : writer = AsmWriter_from(st)
    /\ emitted = <<>>
    /\ calls = <<>>
    /\ IdleParser /\ IdleRun /\ IdleExec

\* writer.write_init(), the first call made on the generator
WriteInit ==
    /\ calls = <<>>
    /\ LET r == write_init(writer) IN
          /\ writer' = r.writer
          /\ emitted' = Append(emitted, r.result.text)
          /\ calls' = Append(calls, [init |-> TRUE, command |-> Return, tag |-> r.result.tag])
    /\ UNCHANGED <<parserVars, runVars, execVars>>

\* writer.write_command(command); an Err leaves no text
WriteCommand ==
    /\ Len(calls) < MaxCalls
    /\ \E i \in 1..Len(CommandMenu) :
          LET r == write_command(writer, CommandMenu[i]) IN
          /\ writer' = r.writer
          /\ emitted' = IF r.result.tag = "Ok" THEN Append(emitted, r.result.text) ELSE emitted
          /\ calls' = Append(calls, [init |-> FALSE, command |-> CommandMenu[i],
                                     tag |-> r.result.tag])
    /\ UNCHANGED <<parserVars, runVars, execVars>>

NextWriter == WriteInit \/ WriteCommand

SpecWriter == InitWriter /\ [][NextWriter]_vars

\* the lines of a text that start with the given characters
LinesWith(text, prefix) == SelectSeq(text, LAMBDA line : IsPrefix(prefix, line))

Distinct(seq) == \A i, j \in 1..Len(seq) : i # j => seq[i] # seq[j]

IsComparison(call) ==
    /\ ~call.init
    /\ call.command.kind = "Arithmetic"
    /\ call.command.op \in {"Equal", "GreaterThan", "LessThan"}

IsCallOf(call, symbol) ==
    ~call.init /\ call.command.kind = "Call" /\ call.command.symbol = symbol

\* (BRANCH0) (BRANCH0END) (BRANCH1) (BRANCH1END) ... for k comparisons
RECURSIVE BranchPairs(_)
BranchPairs(k) ==
    IF k = 0 THEN <<>>
    ELSE BranchPairs(k - 1)
         \o <<Concat(<<<<"(","B","R","A","N","C","H">>, Display(k - 1), <<")">>>>),
              Concat(<<<<"(","B","R","A","N","C","H">>, Display(k - 1), <<"E","N","D",")">>>>)>>

\* C1: in one run of the generator (write_init first, then any write_command
\* calls) no two return-label definitions (RET-{callee}${n}) have the same text.
C1_ReturnLabelsDistinct == Distinct(LinesWith(Concat(emitted), <<"(","R","E","T","-">>))

\* the number of comparisons written so far
NComparisons == Cardinality({i \in 1..Len(calls) : IsComparison(calls[i])})

LastCall(cs) == cs[Len(cs)]

IsPopConstant(call) ==
    ~call.init /\ call.command.kind = "Pop" /\ call.command.segment = s_constant

\* C18: write_command of a pop to constant returns the error "Cannot pop to
\* constant", whatever the index and the state of the generator, and the call
\* emits no text and leaves the generator, its two counters included, as it
\* was.
C18_PopConstantRefused ==
    [][(Len(calls') = Len(calls) + 1 /\ IsPopConstant(LastCall(calls')))
        => /\ write_command(writer, LastCall(calls').command).result
                  = WErr("Cannot pop to constant")
           /\ LastCall(calls').tag = "Err"
           /\ emitted' = emitted
           /\ writer' = writer]_vars

\* C18 witness: pop constant 65535 was refused after the prologue, a
\* comparison and a call had been written
C18_Witness ==
    /\ Len(calls) = 4
    /\ calls[1].init
    /\ calls[2].command = Arithmetic("Equal")
    /\ calls[3].command.kind = "Call"
    /\ calls[4].command = Pop(s_constant, 65535, s_Main)
    /\ calls[4].tag = "Err"
    /\ Len(emitted) = 3
    /\ writer.line_count = 2 /\ writer.branch_count = 1

\* names that are no segment of the table
OtherNames ==
    {s_constant, <<"p","o","i","n","t","e","r">>, <<"L","C","L">>, s_Foo, <<>>}

SegmentTableLoaded(symbol_table) ==
    /\ get_address(symbol_table, s_local) = <<Relative(<<"L","C","L">>)>>
    /\ get_address(symbol_table, s_argument) = <<Relative(<<"A","R","G">>)>>
    /\ get_address(symbol_table, s_this) = <<Relative(<<"T","H","I","S">>)>>
    /\ get_address(symbol_table, s_that) = <<Relative(<<"T","H","A","T">>)>>
    /\ get_address(symbol_table, s_temp) = <<Absolute(5)>>
    /\ Len(get_address(symbol_table, s_static)) = 1
    /\ get_address(symbol_table, s_static)[1].mode \in {"Relative", "Absolute"}
    /\ \A name \in OtherNames : get_address(symbol_table, name) = <<>>

C7_OneAdvancePerLine ==
    last_result.tag # "Panic" =>
        /\ parser.next_command = n_advance
        /\ has_more_commands(parser) = {Ok(<<n_advance < n_lines>>)}

-----------------------------------------------------------------------------
(* Spec: vm::run on a Config built by Config::new.  The source is a text   *)
(* of at most MaxLines lines, held in one file (Main.vm) or cut in two     *)
(* (Main.vm, Sys.vm); the command line has no option, --no-init or an      *)
(* option the driver does not know.                                        *)

Options == <<"", "--no-init", "--init">>

\* Config::new with the option read but not obeyed
Config_write_init_always(option) ==
    IF option \in {"", "--no-init"} THEN <<TRUE>> ELSE <<>>

\* the match on the second argument in Config::new: Ok(<<write_init>>) or Err
Config_write_init(option) ==
    IF option = "" THEN <<TRUE>>
    ELSE IF option = "--no-init" THEN <<FALSE>>
    ELSE <<>>

VmFile(stem, lines) == [stem |-> stem, lines |-> lines]

\* the ways to store a text: whole in Main.vm, or cut at k into Main.vm and Sys.vm
FileVecs(text) ==
    {<<VmFile(s_Main, RawLines(text))>>}
    \cup {<<VmFile(s_Main, RawLines(SubSeq(text, 1, k))),
            VmFile(s_Sys, RawLines(SubSeq(text, k + 1, Len(text))))>> : k \in 0..Len(text)}

\* keys and values of a HashMap held as a function
MapInsert(map, key, value) ==
    [k \in DOMAIN map \cup {key} |-> IF k = key THEN value ELSE map[k]]

MapRemove(map, key) == [k \in DOMAIN map \ {key} |-> map[k]]

Init ==
    /\ \E text \in Texts(MaxLines) : \E filevec \in FileVecs(text) :
       \E i \in 1..Len(Options) :
          LET wi == Config_write_init(Options[i]) IN
          /\ config = [filevec |-> filevec, option |-> Options[i],
                       write_init |-> IF wi = <<>> THEN TRUE ELSE wi[1]]
          /\ pc = IF wi = <<>> THEN "usage" ELSE "load"
    /\ file_map = <<>>
    /\ tokens = <<>>
    /\ cl = <<>>
    /\ out = <<>>
    /\ collected = <<>>
    /\ disk = <<>>
    /\ filename = <<>>
    /\ parsed = <<>>
    /\ IdleParser /\ IdleWriter /\ IdleExec

\* run, lines 67-85: every file is read into file_map under its stem, and the
\* generator is built
LoadFiles ==
    /\ pc = "load"
    /\ file_map' = [stem \in {config.filevec[i].stem : i \in 1..Len(config.filevec)} |->
                       LET i == CHOOSE i \in 1..Len(config.filevec) :
                                    config.filevec[i].stem = stem
                       IN  config.filevec[i].lines]
    /\ \E st \in StartingTables : writer' = AsmWriter_from(st)
    /\ pc' = "tokenize"
    /\ UNCHANGED <<config, tokens, cl, out, collected, disk, filename,
                 parsed>>
    /\ UNCHANGED <<parserVars, emitted, calls, execVars>>

\* where run goes once the parser at hand has no more commands: to the next
\* file of the tokens map, or on to the generator
after_file(toks) == IF DOMAIN toks = {} THEN "init" ELSE "parse"

\* run, lines 89-98: one turn of the loop over file_map, in the map's order
TokenizeFile ==
    /\ pc = "tokenize"
    /\ \E key \in DOMAIN file_map :
          /\ tokens' = MapInsert(tokens, key,
                                 TokenLines(file_map[key]))
          /\ file_map' = MapRemove(file_map, key)
          /\ pc' = IF DOMAIN file_map = {key} THEN "parse" ELSE "tokenize"
    /\ UNCHANGED <<config, cl, out, collected, disk, filename,
                 parsed>>
    /\ UNCHANGED <<parserVars, writerVars, execVars>>

loop_exit(p) == IF Ok(<<TRUE>>) \in has_more_commands(p) THEN "advance" ELSE "next"

\* run, lines 101-103: one turn of the loop over tokens, in the map's order:
\* the parser of that file is built and has_more_commands() asked once
ParserFrom ==
    /\ pc = "parse"
    /\ \E key \in DOMAIN tokens :
          LET p == Parser_from(Vec(tokens[key]), key) IN
          /\ parser' = p
          /\ filename' = key
          /\ tokens' = MapRemove(tokens, key)
          /\ pc' = IF loop_exit(p) = "advance" THEN "advance"
                   ELSE after_file(MapRemove(tokens, key))
    /\ UNCHANGED <<config, file_map, cl, out, collected, disk, parsed>>
    /\ UNCHANGED <<source, n_lines, n_advance, last_result, writerVars, execVars>>

\* run skipping a line that does not parse, as it skips a blank line
on_advance_skips_errors(result) ==
    CASE result.tag = "Panic" -> "panic"
      [] OTHER -> "loop"

\* what run does with the result of advance(): ? returns the error, a panic
\* unwinds, a command is pushed, None is skipped
on_advance(result) ==
    CASE result.tag = "Err" -> "err"
      [] result.tag = "Panic" -> "panic"
      [] OTHER -> "loop"

\* run, lines 103-108: advance() and what the match does with its result
AdvanceLine ==
    /\ pc = "advance"
    /\ LET a == advance(parser)
           to == on_advance(a.result)
       IN  /\ parser' = a.parser
           /\ last_result' = a.result
           /\ parsed' = Append(parsed, [file |-> filename,
                                        line |-> parser.next_command + 1,
                                        tag |-> a.result.tag])
           /\ cl' = IF a.result.tag = "Ok" THEN cl \o a.result.val ELSE cl
           /\ pc' = IF to # "loop" THEN to
                    ELSE IF loop_exit(a.parser) = "advance" THEN "advance"
                    ELSE after_file(tokens)
    /\ UNCHANGED <<config, file_map, tokens, out, collected, disk, filename>>
    /\ UNCHANGED <<source, n_lines, n_advance, writerVars, execVars>>

\* run, lines 111-115: the prologue, when the Config asks for it
RunWriteInit ==
    /\ pc = "init"
    /\ IF config.write_init
       THEN LET r == write_init(writer) IN
            /\ writer' = r.writer
            /\ out' = Append(out, r.result.text)
       ELSE UNCHANGED <<writer, out>>
    /\ pc' = "generate"
    /\ UNCHANGED <<config, file_map, tokens, cl, collected, disk, filename,
                 parsed>>
    /\ UNCHANGED <<parserVars, emitted, calls, execVars>>

\* run, lines 117-121: one turn of the map over cl; unwrap() panics on an Err
GenerateCommand ==
    /\ pc = "generate"
    /\ cl # <<>>
    /\ LET r == write_command(writer, Head(cl)) IN
          /\ writer' = r.writer
          /\ calls' = Append(calls, [init |-> FALSE, command |-> Head(cl),
                                     tag |-> r.result.tag])
          /\ collected' = IF r.result.tag = "Ok" THEN collected \o r.result.text
                          ELSE collected
          /\ pc' = IF r.result.tag = "Ok" THEN "generate" ELSE "panic"
    /\ cl' = Tail(cl)
    /\ UNCHANGED <<config, file_map, tokens, out, disk, filename,
                 parsed>>
    /\ UNCHANGED <<parserVars, emitted, execVars>>

\* run, line 117: the collected String is pushed on out
PushCollected ==
    /\ pc = "generate"
    /\ cl = <<>>
    /\ out' = Append(out, collected)
    /\ pc' = "write"
    /\ UNCHANGED <<config, file_map, tokens, cl, collected, disk, filename,
                 parsed>>
    /\ UNCHANGED <<parserVars, writerVars, execVars>>

\* run, line 123, and write_asm_file: the file is created and out.join("") written
WriteAsmFile ==
    /\ pc = "write"
    /\ disk' = <<Concat(out)>>
    /\ pc' = "done"
    /\ UNCHANGED <<config, file_map, tokens, cl, out, collected, filename,
                 parsed>>
    /\ UNCHANGED <<parserVars, writerVars, execVars>>

Next ==
    \/ LoadFiles
    \/ TokenizeFile
    \/ ParserFrom
    \/ AdvanceLine
    \/ RunWriteInit
    \/ GenerateCommand
    \/ PushCollected
    \/ WriteAsmFile

Spec == Init /\ [][Next]_vars

Failed == pc \in {"err", "panic"}

\* C8: once a line failed to parse or a command failed to generate, the run
\* has stopped there: that line is the last one parsed and no command was
\* generated, or that command is the last one generated; and the output file
\* does not exist.
C8_FailFastNoOutput ==
    /\ \A i \in 1..Len(parsed) : parsed[i].tag # "Ok" =>
          Failed /\ disk = <<>> /\ i = Len(parsed) /\ calls = <<>> /\ collected = <<>>
    /\ \A j \in 1..Len(calls) : calls[j].tag # "Ok" =>
          Failed /\ disk = <<>> /\ j = Len(calls)

\* C8 witness: a command was refused after the prologue and an earlier command
\* were generated, with a command still waiting
C8_Witness ==
    /\ pc = "panic"
    /\ calls # <<>> /\ calls[Len(calls)].tag = "Err"
    /\ out # <<>> /\ collected # <<>> /\ cl # <<>>
    /\ disk = <<>>

\* the text write_init returns on a new generator, and its first part
Prologue == write_init(NewWriter).result.text

SetSP == <<<<"@","2","5","6">>, <<"D","=","A">>, <<"@","S","P">>, <<"M","=","D">>>>

Occurrences(text, part) ==
    Cardinality({i \in 0..(Len(text) - Len(part)) : SubSeq(text, i + 1, i + Len(part)) = part})

PrologueOnceAndFirst(text) == Occurrences(text, SetSP) = 1 /\ IsPrefix(Prologue, text)

\* C9 as claimed: whatever the options, the output of a finished run holds
\* the prologue exactly once, before every command's text.
C9_PrologueAlways == pc = "done" => PrologueOnceAndFirst(disk[1])

\* C9 as amended: without --no-init the output of a finished run holds the
\* prologue exactly once, before every command's text; with --no-init it
\* holds no prologue.
C9_PrologueUnlessNoInit ==
    pc = "done" =>
        IF config.option = "--no-init"
        THEN Occurrences(disk[1], SetSP) = 0 /\ ~IsPrefix(Prologue, disk[1])
        ELSE PrologueOnceAndFirst(disk[1])

\* C9 witness: a finished run over two files, with the prologue and two commands
C9_Witness ==
    /\ pc = "done"
    /\ config.option = ""
    /\ Len(config.filevec) = 2
    /\ Len(calls) = 2
    /\ Len(disk[1]) > Len(Prologue)

\* the raw line a parsed line came from
RawOf(file, line) ==
    LET i == CHOOSE i \in 1..Len(config.filevec) : config.filevec[i].stem = file
    IN  config.filevec[i].lines[line]

IsStaticAccess(raw) ==
    LET words == split_whitespace(raw)
    IN  Len(words) = 3 /\ words[1] \in {s_push, s_pop} /\ words[2] = s_static

\* @{file}.{index as written}, for the static accesses among the parsed lines
ExpectedStaticRefs ==
    LET hits == SelectSeq(parsed, LAMBDA e : IsStaticAccess(RawOf(e.file, e.line)))
    IN  [i \in 1..Len(hits) |->
            Concat(<<<<"@">>, hits[i].file, <<".">>,
                     split_whitespace(RawOf(hits[i].file, hits[i].line))[3]>>)]

\* the lines @{stem}.{digits} of a text, for the stems of the files given
StaticRefs(text) ==
    SelectSeq(text, LAMBDA line :
        \E i \in 1..Len(config.filevec) :
            LET head == Concat(<<<<"@">>, config.filevec[i].stem, <<".">>>>) IN
            /\ IsPrefix(head, line)
            /\ Len(line) > Len(head)
            /\ \A k \in (Len(head) + 1)..Len(line) : line[k] \in DigitChars)

\* C10: in the output of a finished run every access to static is to the label
\* {file}.{index} of the file its line came from, in whatever order the files
\* were tokenized and parsed, and lines of two files never get the same label.
C10_StaticKeyedByFile ==
    pc = "done" =>
        LET hits == SelectSeq(parsed, LAMBDA e : IsStaticAccess(RawOf(e.file, e.line)))
            refs == StaticRefs(disk[1])
        IN  /\ refs = ExpectedStaticRefs
            /\ \A a, b \in 1..Len(hits) : hits[a].file # hits[b].file => refs[a] # refs[b]

\* C10 witness: Sys.vm was parsed before Main.vm, both push static 1
C10_Witness ==
    /\ pc = "done"
    /\ Len(parsed) = 2
    /\ parsed[1].file = s_Sys /\ parsed[2].file = s_Main
    /\ StaticRefs(disk[1]) = <<<<"@","S","y","s",".","1">>, <<"@","M","a","i","n",".","1">>>>

-----------------------------------------------------------------------------
(* The target machine.  The emitted text is assembled as the downstream    *)
(* assembler does (comments dropped, (label) lines turned into addresses,  *)
(* @symbol resolved) and executed by the machine's rules: @v loads A; a    *)
(* dest=comp;jump instruction computes on A, D and M = RAM[A] in 16 bits,  *)
(* stores the result and jumps to A when the result meets the condition.   *)

\* the machine's words are 16 bits wide, as the generator's u16
W == U16

IsComment(line) == IsPrefix(<<"/","/">>, line)

IsLabel(line) == line # <<>> /\ line[1] = "("

Instructions(text) == SelectSeq(text, LAMBDA line : ~IsComment(line) /\ ~IsLabel(line))

LabelLine(name) == Concat(<<<<"(">>, name, <<")">>>>)

IsDefined(text, name) == \E i \in 1..Len(text) : text[i] = LabelLine(name)

\* the address of a label: the number of instructions before its first definition
LabelAddress(text, name) ==
    LET defs == {i \in 1..Len(text) : text[i] = LabelLine(name)}
        i == CHOOSE i \in defs : \A j \in defs : i <= j
    IN  Len(Instructions(SubSeq(text, 1, i - 1)))

\* the registers the assembler knows by name
STARTINGTABLE ==
    <<
        <<<<"S","P">>, 0>>,
        <<<<"L","C","L">>, 1>>,
        <<<<"A","R","G">>, 2>>,
        <<<<"T","H","I","S">>, 3>>,
        <<<<"T","H","A","T">>, 4>>,
        <<<<"R","0">>, 0>>,
        <<<<"R","1">>, 1>>,
        <<<<"R","2">>, 2>>,
        <<<<"R","3">>, 3>>,
        <<<<"R","4">>, 4>>,
        <<<<"R","5">>, 5>>,
        <<<<"R","6">>, 6>>,
        <<<<"R","7">>, 7>>,
        <<<<"R","8">>, 8>>,
        <<<<"R","9">>, 9>>,
        <<<<"R","1","0">>, 10>>,
        <<<<"R","1","1">>, 11>>,
        <<<<"R","1","2">>, 12>>,
        <<<<"R","1","3">>, 13>>,
        <<<<"R","1","4">>, 14>>,
        <<<<"R","1","5">>, 15>>,
        <<<<"S","C","R","E","E","N">>, 16384>>,
        <<<<"K","B","D">>, 24576>> >>

IsPredefined(name) == \E i \in 1..Len(STARTINGTABLE) : STARTINGTABLE[i][1] = name

Predefined(name) ==
    LET i == CHOOSE i \in 1..Len(STARTINGTABLE) : STARTINGTABLE[i][1] = name
    IN  STARTINGTABLE[i][2]

IsNumber(name) == name # <<>> /\ \A i \in 1..Len(name) : name[i] \in DigitChars

\* the names a text uses as variables, in the order of their first use
RECURSIVE Variables(_, _, _)
Variables(text, rest, seen) ==
    IF rest = <<>> THEN seen
    ELSE LET line == Head(rest)
             name == Tail(line)
             new == /\ line[1] = "@"
                    /\ ~IsNumber(name) /\ ~IsPredefined(name) /\ ~IsDefined(text, name)
                    /\ \A i \in 1..Len(seen) : seen[i] # name
         IN  Variables(text, Tail(rest), IF new THEN Append(seen, name) ELSE seen)

\* the first address the assembler gives to a variable
current_address == 16

Resolve(text, name) ==
    IF IsNumber(name) THEN DigitsValue(name)
    ELSE IF IsPredefined(name) THEN Predefined(name)
    ELSE IF IsDefined(text, name) THEN LabelAddress(text, name)
    ELSE LET vs == Variables(text, Instructions(text), <<>>)
             i == CHOOSE i \in 1..Len(vs) : vs[i] = name
         IN  current_address + i - 1

Position(line, c) ==
    LET hits == {i \in 1..Len(line) : line[i] = c}
    IN  IF hits = {} THEN 0 ELSE CHOOSE i \in hits : \A j \in hits : i <= j

\* an instruction decoded: @value, or dest=comp;jump with dest and jump optional
Decode(text, line) ==
    IF line[1] = "@"
    THEN [a |-> TRUE, value |-> Resolve(text, Tail(line)),
          dest |-> <<>>, comp |-> <<>>, jump |-> <<>>]
    ELSE LET eq == Position(line, "=")
             semi == Position(line, ";")
             stop == IF semi = 0 THEN Len(line) ELSE semi - 1
         IN  [a |-> FALSE, value |-> 0,
              dest |-> SubSeq(line, 1, eq - 1),
              comp |-> SubSeq(line, eq + 1, stop),
              jump |-> IF semi = 0 THEN <<>> ELSE SubSeq(line, semi + 1, Len(line))]

Assemble(text) ==
    LET code == Instructions(text)
    IN  [i \in 1..Len(code) |-> Decode(text, code[i])]

RECURSIVE BitAnd(_, _)
BitAnd(a, b) ==
    IF a = 0 \/ b = 0 THEN 0
    ELSE (IF a % 2 = 1 /\ b % 2 = 1 THEN 1 ELSE 0) + 2 * BitAnd(a \div 2, b \div 2)

RECURSIVE BitOr(_, _)
BitOr(a, b) ==
    IF a = 0 THEN b
    ELSE IF b = 0 THEN a
    ELSE (IF a % 2 = 1 \/ b % 2 = 1 THEN 1 ELSE 0) + 2 * BitOr(a \div 2, b \div 2)

\* a word read as a signed number
Signed(v) == IF v >= W \div 2 THEN v - W ELSE v

\* the ALU
Comp(comp, A, D, M) ==
    CASE comp = <<"0">> -> 0
      [] comp = <<"1">> -> 1
      [] comp = <<"-","1">> -> W - 1
      [] comp = <<"D">> -> D
      [] comp = <<"A">> -> A
      [] comp = <<"M">> -> M
      [] comp = <<"!","D">> -> W - 1 - D
      [] comp = <<"!","A">> -> W - 1 - A
      [] comp = <<"!","M">> -> W - 1 - M
      [] comp = <<"-","D">> -> (W - D) % W
      [] comp = <<"-","A">> -> (W - A) % W
      [] comp = <<"-","M">> -> (W - M) % W
      [] comp = <<"D","+","1">> -> (D + 1) % W
      [] comp = <<"A","+","1">> -> (A + 1) % W
      [] comp = <<"M","+","1">> -> (M + 1) % W
      [] comp = <<"D","-","1">> -> (D + W - 1) % W
      [] comp = <<"A","-","1">> -> (A + W - 1) % W
      [] comp = <<"M","-","1">> -> (M + W - 1) % W
      [] comp = <<"D","+","A">> -> (D + A) % W
      [] comp = <<"D","+","M">> -> (D + M) % W
      [] comp = <<"D","-","A">> -> (D + W - A) % W
      [] comp = <<"D","-","M">> -> (D + W - M) % W
      [] comp = <<"A","-","D">> -> (A + W - D) % W
      [] comp = <<"M","-","D">> -> (M + W - D) % W
      [] comp = <<"D","&","A">> -> BitAnd(D, A)
      [] comp = <<"D","&","M">> -> BitAnd(D, M)
      [] comp = <<"D","|","A">> -> BitOr(D, A)
      [] comp = <<"D","|","M">> -> BitOr(D, M)

Jumps(jump, word) ==
    LET v == Signed(word) IN
    CASE jump = <<>> -> FALSE
      [] jump = <<"J","G","T">> -> v > 0
      [] jump = <<"J","E","Q">> -> v = 0
      [] jump = <<"J","G","E">> -> v >= 0
      [] jump = <<"J","L","T">> -> v < 0
      [] jump = <<"J","N","E">> -> v # 0
      [] jump = <<"J","L","E">> -> v <= 0
      [] jump = <<"J","M","P">> -> TRUE

Has(dest, c) == \E i \in 1..Len(dest) : dest[i] = c

Read(mem, address) == IF address \in DOMAIN mem THEN mem[address] ELSE 0

Write(mem, address, value) ==
    [a \in DOMAIN mem \cup {address} |-> IF a = address THEN value ELSE mem[a]]

-----------------------------------------------------------------------------
(* SpecExec: a VM program is translated by write_command, command after    *)
(* command on a new generator, assembled, and executed from its first      *)
(* instruction.  The machine starts as the test scripts of the platform    *)
(* set it up: SP, LCL, ARG, THIS and THAT point at separate areas.         *)

\* run, lines 117-121: the text of each command of a program, in order
RECURSIVE write_all(_, _)
write_all(w, commands) ==
    IF commands = <<>> THEN <<>>
    ELSE LET r == write_command(w, Head(commands))
         IN  <<r.result.text>> \o write_all(r.writer, Tail(commands))

\* sample words: small values, the operands of the spec's example, and the
\* ends of the signed and unsigned ranges
Words == {0, 1, 7, 8, 32767, 32768, 65535}

StackBase == 256

BinaryOps == <<"Add", "Subtract", "And", "Or">>

Comparisons == <<"Equal", "GreaterThan", "LessThan">>

PushConstant(n) == Push(s_constant, n, s_Main)

\* bodies of the called function
Bodies ==
    <<  <<>>,
        <<PushConstant(42)>>,
        <<PushConstant(9), Pop(s_local, 0, s_Main), Push(s_local, 0, s_Main),
          Push(s_argument, 0, s_Main), Arithmetic("Add")>> >>

Registers(sp) == (0 :> sp) @@ (1 :> 300) @@ (2 :> 400) @@ (3 :> 3000) @@ (4 :> 4000)

\* x op y: the operands lie on the stack above one more cell
OperatorScenario(kind, op, x, y) ==
    [kind |-> kind, op |-> op, x |-> x, y |-> y, nargs |-> 0, nlocals |-> 0,
     program |-> <<Arithmetic(op)>>, focus |-> 1, return |-> 0,
     memory |-> Registers(StackBase + 3)
                @@ (StackBase :> 99) @@ (StackBase + 1 :> x) @@ (StackBase + 2 :> y)]

\* push constant 7, push constant 8, add
SumScenario ==
    [kind |-> "sum", op |-> "Add", x |-> 7, y |-> 8, nargs |-> 0, nlocals |-> 0,
     program |-> <<PushConstant(7), PushConstant(8), Arithmetic("Add")>>,
     focus |-> 1, return |-> 0,
     memory |-> Registers(StackBase)]

\* the arguments are pushed, Foo is called, and the caller ends in the loop
\* label end, goto end; then function Foo, its body, return
CallScenario(nargs, nlocals, body) ==
    [kind |-> "call", op |-> "", x |-> 0, y |-> 0, nargs |-> nargs, nlocals |-> nlocals,
     program |-> [i \in 1..nargs |-> PushConstant(10 + i)]
                 \o <<Call(s_Foo, nargs), Label(<<"e","n","d">>), Goto(<<"e","n","d">>),
                      Function(s_Foo, nlocals)>>
                 \o body \o <<Return>>,
     focus |-> nargs + 1, return |-> nargs + 5 + Len(body),
     memory |-> Registers(StackBase)]

Scenarios ==
    {OperatorScenario("binary", BinaryOps[i], x, y) :
        i \in 1..Len(BinaryOps), x \in Words, y \in Words}
    \cup {OperatorScenario("compare", Comparisons[i], x, y) :
        i \in 1..Len(Comparisons), x \in Words, y \in Words}
    \cup {SumScenario}
    \cup {CallScenario(nargs, nlocals, Bodies[b]) :
        nargs \in 0..MaxArgs, nlocals \in 0..MaxLocals, b \in 1..Len(Bodies)}

ProgramText(sc) == Concat(write_all(NewWriter, sc.program))

\* the address of the first instruction of command k of the program
CommandAddress(sc, k) ==
    Len(Instructions(Concat(SubSeq(write_all(NewWriter, sc.program), 1, k - 1))))

\* where execution is observed to end: at the return label of the call, or
\* past the last instruction
HaltAddress(sc) ==
    IF sc.kind = "call"
    THEN LabelAddress(ProgramText(sc),
                      return_label([line_count |-> sc.focus - 1, branch_count |-> 0], s_Foo))
    ELSE Len(Instructions(ProgramText(sc)))

InitExec ==
    /\ \E sc \in Scenarios :
          /\ scen = [kind |-> sc.kind, op |-> sc.op, x |-> sc.x, y |-> sc.y,
                     nargs |-> sc.nargs, nlocals |-> sc.nlocals,
                     focus |-> CommandAddress(sc, sc.focus),
                     return |-> IF sc.return = 0 THEN 0 - 1
                                ELSE CommandAddress(sc, sc.return),
                     halt |-> HaltAddress(sc)]
          /\ rom = Assemble(ProgramText(sc))
          /\ ram = sc.memory
    /\ cpu = [A |-> 0, D |-> 0, PC |-> 0]
    /\ obs = [before |-> <<>>, atReturn |-> <<>>]
    /\ IdleParser /\ IdleWriter /\ IdleRun

Halted == cpu.PC = scen.halt \/ cpu.PC >= Len(rom)

\* the memory as it is when execution reaches the command the scenario is
\* about, and when it reaches Return
Observe ==
    obs' = [before |-> IF cpu.PC = scen.focus /\ obs.before = <<>> THEN ram ELSE obs.before,
            atReturn |-> IF cpu.PC = scen.return THEN ram ELSE obs.atReturn]

\* @value
StepA ==
    /\ ~Halted
    /\ rom[cpu.PC + 1].a
    /\ cpu' = [cpu EXCEPT !.A = rom[cpu.PC + 1].value, !.PC = cpu.PC + 1]
    /\ Observe
    /\ UNCHANGED <<rom, ram, scen>>
    /\ UNCHANGED <<parserVars, writerVars, runVars>>

\* dest=comp;jump
StepC ==
    /\ ~Halted
    /\ ~rom[cpu.PC + 1].a
    /\ LET ins == rom[cpu.PC + 1]
           v == Comp(ins.comp, cpu.A, cpu.D, Read(ram, cpu.A))
       IN  /\ cpu' = [A |-> IF Has(ins.dest, "A") THEN v ELSE cpu.A,
                      D |-> IF Has(ins.dest, "D") THEN v ELSE cpu.D,
                      PC |-> IF Jumps(ins.jump, v) THEN cpu.A ELSE cpu.PC + 1]
           /\ ram' = IF Has(ins.dest, "M") THEN Write(ram, cpu.A, v) ELSE ram
    /\ Observe
    /\ UNCHANGED <<rom, scen>>
    /\ UNCHANGED <<parserVars, writerVars, runVars>>

NextExec == StepA \/ StepC

SpecExec == InitExec /\ [][NextExec]_vars

SP == Read(ram, 0)

LCL == Read(ram, 1)

ARG == Read(ram, 2)

THIS == Read(ram, 3)

THAT == Read(ram, 4)

\* the stack pointer and the top of the stack in an observed memory
SPof(mem) == Read(mem, 0)

TopOf(mem) == Read(mem, SPof(mem) - 1)

\* the call of the scenario has returned
Returned == scen.kind = "call" /\ cpu.PC = scen.halt

Apply(op, x, y) ==
    CASE op = "Add" -> (x + y) % W
      [] op = "Subtract" -> (x + W - y) % W
      [] op = "And" -> BitAnd(x, y)
      [] op = "Or" -> BitOr(x, y)

\* C5: add, sub, and, or leave SP one cell lower, x op y (x - y for sub) in
\* the new top cell and the cells below unchanged; push constant 7, push
\* constant 8, add leaves the single value 15 on the stack.
C5_BinaryOperators ==
    /\ Halted /\ scen.kind = "binary" =>
          /\ SP = SPof(obs.before) - 1
          /\ TopOf(ram) = Apply(scen.op, scen.x, scen.y)
          /\ \A a \in StackBase..(SP - 2) : Read(ram, a) = Read(obs.before, a)
    /\ Halted /\ scen.kind = "sum" =>
          /\ SP = StackBase + 1
          /\ TopOf(ram) = 15

\* C5 witness: 7 - 8 was computed, on top of the untouched cell below
C5_Witness ==
    /\ Halted /\ scen.kind = "binary" /\ scen.op = "Subtract"
    /\ scen.x = 7 /\ scen.y = 8
    /\ SP = StackBase + 2
    /\ TopOf(ram) = W - 1
    /\ Read(ram, StackBase) = 99

Holds(op, x, y) ==
    CASE op = "Equal" -> Signed(x) = Signed(y)
      [] op = "GreaterThan" -> Signed(x) > Signed(y)
      [] op = "LessThan" -> Signed(x) < Signed(y)

\* C6: eq, gt, lt replace the signed operands x and y by -1 when x = y, x > y,
\* x < y and by 0 otherwise, with SP one cell lower.
C6_SignedComparisons ==
    Halted /\ scen.kind = "compare" =>
        /\ SP = SPof(obs.before) - 1
        /\ TopOf(ram) = IF Holds(scen.op, scen.x, scen.y) THEN W - 1 ELSE 0

=============================================================================
